---- MODULE Spec2Model ----
(***************************************************************************)
(* Model of the SpaceAPI explorer: the pydantic models of                  *)
(* spaceapi/models.py (status-document normalization) and the client of    *)
(* spaceapi/client.py that builds them from endpoint responses.            *)
(*                                                                         *)
(* A raw document is an untyped JSON tree.  Every JSON value is a record   *)
(* tagged by t; a key that is not in a JSON object is the value Absent.    *)
(* Numbers with a fraction are kept in tenths (FloatV(215) is 21.5), so     *)
(* truncation to whole seconds is something the model computes.            *)
(* Validation follows pydantic 2.x, which models.py needs (it calls        *)
(* HttpUrl(url)): a ValueError/AssertionError raised while validating a    *)
(* field becomes an entry of the ValidationError, every other exception    *)
(* raised by a validator leaves the constructor at once.                   *)
(***************************************************************************)
EXTENDS Integers, Sequences, FiniteSets, TLC

VARIABLES body, pc, outcome, returned, handler, again,
          urls, srv, max_retries, max_concurrent, fut, collected, results,
          writes, mainpc,
          ep, doc, query, search_field, dirout, statout, found,
          spaces_data, criteria, matching, patterns, geo,
          mon, lastrun

\* one call of get_space_status
callvars == <<body, pc, outcome, returned, handler, again>>

\* one call of get_multiple_space_statuses
batchvars == <<urls, srv, max_retries, max_concurrent, fut, collected, results,
               writes, mainpc>>

\* the directory: get_directory and search_spaces
dirvars == <<ep, doc, query, search_field, dirout, statout, found>>

\* SpaceAnalyzer: the loaded spaces, the criteria of a search, and what the
\* three analyses returned
anavars == <<spaces_data, criteria, matching, patterns, geo>>

\* HealthMonitor: self.results and how the last run_health_check ended
monvars == <<mon, lastrun>>

\* what an action of a single call or of a batch fetch leaves alone
restvars == <<dirvars, anavars, monvars>>

vars == <<callvars, batchvars, restvars>>

(***************************************************************************)
(* Bounds of the explored input space.                                     *)
(***************************************************************************)
\* longest list of readings in all sensor categories of a document together
MaxSensors == 2
\* lastchange timestamps range over -MaxTs .. MaxTs seconds, in half seconds
MaxTs == 2
\* longest api_compatibility list of a document
MaxVersions == 2
\* longest list of URLs passed to get_multiple_space_statuses
MaxUrls == 2
\* max_retries of the client ranges over 0 .. MaxRetries
MaxRetries == 2
\* max_concurrent of a batch fetch ranges over 1 .. MaxWorkers
MaxWorkers == 2

(***************************************************************************)
(* JSON values.                                                            *)
(***************************************************************************)
Absent == [t |-> "absent"]

None == [t |-> "null"]

Str(s) == [t |-> "str", v |-> s]

IntV(n) == [t |-> "int", v |-> n]

FloatV(tenths) == [t |-> "float", v |-> tenths]

List(q) == [t |-> "list", v |-> q]

Obj(f) == [t |-> "object", v |-> f]

\* a JSON string whose text is "<scheme>://<host>/..." ("" = part missing)
UrlStr(scheme, host) == [t |-> "str", scheme |-> scheme, host |-> host]

\* Python truthiness of values.get(key): a missing key gives None
Truthy(j) ==
    CASE j.t \in {"absent", "null"} -> FALSE
      [] j.t = "str" /\ "v" \in DOMAIN j -> j.v # ""
      [] j.t = "list" -> Len(j.v) > 0
      [] j.t \in {"int", "float"} -> j.v # 0
      [] OTHER -> TRUE

\* int(v) of a float kept in tenths: truncation toward zero
int(tenths) == IF tenths >= 0 THEN tenths \div 10 ELSE -((-tenths) \div 10)

(***************************************************************************)
(* Result of validating one field: the value, the validation errors        *)
(* collected for it, and the exception that escaped, if any.               *)
(***************************************************************************)
FieldOk(val) == [val |-> val, errs |-> {}, exc |-> "none"]

FieldError(loc, type) == [val |-> None, errs |-> {<<loc, type>>}, exc |-> "none"]

FieldRaise(exc) == [val |-> None, errs |-> {}, exc |-> exc]

(***************************************************************************)
(* Program constants.                                                      *)
(***************************************************************************)
LatMin == -90

LatMax == 90

LonMin == -180

LonMax == 180

(***************************************************************************)
(* SpaceStatus.handle_api_versions: the pre root validator.  It works on   *)
(* the raw keyword arguments, before any field is validated.               *)
(***************************************************************************)
\* handle_api_versions without the final default
handle_api_versions_NoDefault(values) ==
    IF values.api # Absent /\ values.api_compatibility = Absent
    THEN LET api_version == values.api
             rest == [values EXCEPT !.api = Absent]
         IN  IF Truthy(api_version)
             THEN [rest EXCEPT !.api_compatibility = List(<<api_version>>)]
             ELSE rest
    ELSE values

\* handle_api_versions that never moves api into api_compatibility
handle_api_versions_NoAlias(values) ==
    IF ~Truthy(values.api_compatibility) /\ ~Truthy(values.api)
    THEN [values EXCEPT !.api_compatibility = List(<<Str("14")>>)]
    ELSE values

\* handle_api_versions that defaults to another version
handle_api_versions_OtherDefault(values) ==
    LET popped ==
            IF values.api # Absent /\ values.api_compatibility = Absent
            THEN LET api_version == values.api
                     rest == [values EXCEPT !.api = Absent]
                 IN  IF Truthy(api_version)
                     THEN [rest EXCEPT !.api_compatibility = List(<<api_version>>)]
                     ELSE rest
            ELSE values
    IN  IF ~Truthy(popped.api_compatibility) /\ ~Truthy(popped.api)
        THEN [popped EXCEPT !.api_compatibility = List(<<Str("13")>>)]
        ELSE popped

\* handle_api_versions that appends the legacy version and keeps api
handle_api_versions_Append(values) ==
    LET aliased ==
            IF Truthy(values.api)
            THEN [values EXCEPT !.api_compatibility =
                    List((IF values.api_compatibility.t = "list"
                          THEN values.api_compatibility.v ELSE <<>>)
                         \o <<values.api>>)]
            ELSE values
    IN  IF ~Truthy(aliased.api_compatibility) /\ ~Truthy(aliased.api)
        THEN [aliased EXCEPT !.api_compatibility = List(<<Str("14")>>)]
        ELSE aliased

handle_api_versions(values) ==
    LET popped ==
            IF values.api # Absent /\ values.api_compatibility = Absent
            THEN LET api_version == values.api
                     rest == [values EXCEPT !.api = Absent]
                 IN  IF Truthy(api_version)
                     THEN [rest EXCEPT !.api_compatibility = List(<<api_version>>)]
                     ELSE rest
            ELSE values
    IN  IF ~Truthy(popped.api_compatibility) /\ ~Truthy(popped.api)
        THEN [popped EXCEPT !.api_compatibility = List(<<Str("14")>>)]
        ELSE popped

(***************************************************************************)
(* Field types of the pydantic models.                                     *)
(***************************************************************************)
\* Optional[str]
OptionalStr(loc, j) ==
    CASE j.t \in {"absent", "null"} -> FieldOk(None)
      [] j.t = "str" -> FieldOk(j)
      [] OTHER -> FieldError(loc, "string_type")

\* a required str that also refuses the empty string (min_length=1)
RequiredStr_NonEmpty(loc, j) ==
    CASE j.t = "absent" -> FieldError(loc, "missing")
      [] j.t = "str" ->
            IF j.v # "" THEN FieldOk(j) ELSE FieldError(loc, "string_too_short")
      [] OTHER -> FieldError(loc, "string_type")

\* space: str, required, no length constraint
RequiredStr(loc, j) ==
    CASE j.t = "absent" -> FieldError(loc, "missing")
      [] j.t = "str" -> FieldOk(j)
      [] OTHER -> FieldError(loc, "string_type")

\* Optional[List[str]]
OptionalStrList(loc, j) ==
    CASE j.t \in {"absent", "null"} -> FieldOk(None)
      [] j.t = "list" ->
            IF \A i \in 1..Len(j.v) : j.v[i].t = "str"
            THEN FieldOk(j)
            ELSE FieldError(loc, "string_type")
      [] OTHER -> FieldError(loc, "list_type")

\* HttpUrl: an absolute URL with scheme http or https and a host
IsHttpUrl(j) ==
    /\ j.t = "str"
    /\ "scheme" \in DOMAIN j
    /\ j.scheme \in {"http", "https"}
    /\ j.host # ""

\* an Optional[HttpUrl] that drops a malformed URL instead of rejecting it
OptionalHttpUrl_Lenient(loc, j) ==
    IF IsHttpUrl(j) THEN FieldOk(j) ELSE FieldOk(None)

\* Optional[HttpUrl]
OptionalHttpUrl(loc, j) ==
    CASE j.t \in {"absent", "null"} -> FieldOk(None)
      [] IsHttpUrl(j) -> FieldOk(j)
      [] OTHER -> FieldError(loc, "url_parsing")

\* Optional[List[HttpUrl]]
OptionalHttpUrlList(loc, j) ==
    CASE j.t \in {"absent", "null"} -> FieldOk(None)
      [] j.t = "list" ->
            IF \A i \in 1..Len(j.v) : IsHttpUrl(j.v[i])
            THEN FieldOk(j)
            ELSE FieldError(loc, "url_parsing")
      [] OTHER -> FieldError(loc, "list_type")

\* a coordinate field without the upper limit le=hi
Coordinate_NoUpper(loc, j, lo, hi) ==
    CASE j.t \in {"absent", "null"} -> FieldOk(None)
      [] j.t \in {"int", "float"} ->
            LET tenths == IF j.t = "int" THEN 10 * j.v ELSE j.v
            IN  IF tenths < 10 * lo THEN FieldError(loc, "greater_than_equal")
                ELSE FieldOk(FloatV(tenths))
      [] OTHER -> FieldError(loc, "float_type")

\* Optional[float] = Field(None, ge=lo, le=hi); an integer becomes a float
Coordinate(loc, j, lo, hi) ==
    CASE j.t \in {"absent", "null"} -> FieldOk(None)
      [] j.t \in {"int", "float"} ->
            LET tenths == IF j.t = "int" THEN 10 * j.v ELSE j.v
            IN  IF tenths < 10 * lo THEN FieldError(loc, "greater_than_equal")
                ELSE IF tenths > 10 * hi THEN FieldError(loc, "less_than_equal")
                ELSE FieldOk(FloatV(tenths))
      [] OTHER -> FieldError(loc, "float_type")

\* Optional[SpaceLocation]
SpaceLocation(j) ==
    CASE j.t \in {"absent", "null"} -> FieldOk(None)
      [] j.t = "object" ->
            LET lat == Coordinate("location.lat", j.v.lat, LatMin, LatMax)
                lon == Coordinate("location.lon", j.v.lon, LonMin, LonMax)
            IN  IF lat.errs \cup lon.errs = {}
                THEN FieldOk(Obj([lat |-> lat.val, lon |-> lon.val]))
                ELSE [val |-> None, errs |-> lat.errs \cup lon.errs, exc |-> "none"]
      [] OTHER -> FieldError("location", "model_type")

\* validate_timestamp without the check for a negative value
validate_timestamp_NoNegative(v) ==
    IF v # None
    THEN LET w == IF v.t = "float" THEN IntV(int(v.v)) ELSE v
         IN  IF w.t # "int" THEN FieldRaise("TypeError") ELSE FieldOk(w)
    ELSE FieldOk(v)

\* SpaceState.validate_timestamp, the pre validator of lastchange.
\* Comparing a str, list or dict with 0 raises TypeError.
validate_timestamp(v) ==
    IF v # None
    THEN LET w == IF v.t = "float" THEN IntV(int(v.v)) ELSE v
         IN  IF w.t # "int" THEN FieldRaise("TypeError")
             ELSE IF w.v < 0 THEN FieldOk(None)
             ELSE FieldOk(w)
    ELSE FieldOk(v)

\* Optional[SpaceState]; a validator does not run for a key that is absent
SpaceState(j) ==
    CASE j.t \in {"absent", "null"} -> FieldOk(None)
      [] j.t = "object" ->
            IF j.v.lastchange = Absent
            THEN FieldOk(Obj([lastchange |-> None]))
            ELSE LET ts == validate_timestamp(j.v.lastchange)
                 IN  IF ts.exc # "none" THEN ts
                     ELSE FieldOk(Obj([lastchange |-> ts.val]))
      [] OTHER -> FieldError("state", "model_type")

(***************************************************************************)
(* SpaceStatus.validate_sensors, the pre validator of sensors.             *)
(***************************************************************************)
\* cleaned_sensor that looks for the key name in the raw sensor
cleaned_sensor_RawName(sensor_type, sensor) ==
    LET stripped == [k \in DOMAIN sensor |->
                        IF sensor[k] = None THEN Absent ELSE sensor[k]]
    IN  IF sensor.name = Absent
        THEN [stripped EXCEPT !.name = Str(sensor_type \o "_sensor")]
        ELSE stripped

\* {k: v for k, v in sensor.items() if v is not None}, then the name default
cleaned_sensor(sensor_type, sensor) ==
    LET stripped == [k \in DOMAIN sensor |->
                        IF sensor[k] = None THEN Absent ELSE sensor[k]]
    IN  IF stripped.name = Absent
        THEN [stripped EXCEPT !.name = Str(sensor_type \o "_sensor")]
        ELSE stripped

\* the loop over one category's list that also skips a sensor with no value
RECURSIVE cleaned_sensor_list_DropEmpty(_, _)
cleaned_sensor_list_DropEmpty(sensor_type, sensors) ==
    IF sensors = <<>> THEN <<>>
    ELSE LET sensor == Head(sensors)
             rest == cleaned_sensor_list_DropEmpty(sensor_type, Tail(sensors))
         IN  IF sensor = None THEN rest
             ELSE IF sensor.t = "object"
                  THEN IF \A k \in DOMAIN sensor.v : sensor.v[k] \in {Absent, None}
                       THEN rest
                       ELSE <<Obj(cleaned_sensor(sensor_type, sensor.v))>> \o rest
                  ELSE <<sensor>> \o rest

\* the loop over one category's list, appending in input order
RECURSIVE cleaned_sensor_list(_, _)
cleaned_sensor_list(sensor_type, sensors) ==
    IF sensors = <<>> THEN <<>>
    ELSE LET sensor == Head(sensors)
             rest == cleaned_sensor_list(sensor_type, Tail(sensors))
         IN  IF sensor = None THEN rest
             ELSE IF sensor.t = "object"
                  THEN <<Obj(cleaned_sensor(sensor_type, sensor.v))>> \o rest
                  ELSE <<sensor>> \o rest

\* validate_sensors that keeps a category whose cleaned list is empty
validate_sensors_KeepEmpty(v) ==
    IF v = None THEN FieldOk(None)
    ELSE IF v.t # "object" THEN FieldRaise("AttributeError")
    ELSE LET kept == {c \in DOMAIN v.v : v.v[c] # None}
             cleaned_sensors == [c \in kept |-> List(cleaned_sensor_list(c, v.v[c].v))]
         IN  IF kept # {} THEN FieldOk(Obj(cleaned_sensors)) ELSE FieldOk(None)

\* v.items() of anything but a dict raises AttributeError
validate_sensors(v) ==
    IF v = None THEN FieldOk(None)
    ELSE IF v.t # "object" THEN FieldRaise("AttributeError")
    ELSE LET kept == {c \in DOMAIN v.v :
                        /\ v.v[c] # None
                        /\ cleaned_sensor_list(c, v.v[c].v) # <<>>}
             cleaned_sensors == [c \in kept |-> List(cleaned_sensor_list(c, v.v[c].v))]
         IN  IF kept # {} THEN FieldOk(Obj(cleaned_sensors)) ELSE FieldOk(None)

\* Optional[Dict[str, List[Union[SpaceSensor, Dict[str, Any], None]]]]
Sensors(j) ==
    IF j = Absent THEN FieldOk(None)
    ELSE LET pre == validate_sensors(j)
         IN  IF pre.exc # "none" \/ pre.val = None THEN pre
             ELSE IF \A c \in DOMAIN pre.val.v :
                        \A i \in 1..Len(pre.val.v[c].v) :
                            pre.val.v[c].v[i].t \in {"object", "null"}
                  THEN pre
                  ELSE FieldError("sensors", "model_type")

(***************************************************************************)
(* The SpaceStatus constructor: the pre root validator, then every field in *)
(* the order the class declares it.  The outcome is a record ("ok"), a     *)
(* ValidationError with the errors of all fields ("invalid"), or the first *)
(* other exception a validator raised ("raised").                          *)
(***************************************************************************)
FieldOrder == <<"api_compatibility", "api", "space", "logo", "location",
                "state", "cam", "sensors">>

SpaceStatus(space_data) ==
    LET values == handle_api_versions(space_data)
        r == [f \in {FieldOrder[i] : i \in 1..Len(FieldOrder)} |->
                CASE f = "api_compatibility" ->
                        OptionalStrList(f, values.api_compatibility)
                  [] f = "api" -> OptionalStr(f, values.api)
                  [] f = "space" -> RequiredStr(f, values.space)
                  [] f = "logo" -> OptionalHttpUrl(f, values.logo)
                  [] f = "location" -> SpaceLocation(values.location)
                  [] f = "state" -> SpaceState(values.state)
                  [] f = "cam" -> OptionalHttpUrlList(f, values.cam)
                  [] f = "sensors" -> Sensors(values.sensors)]
        raising == {i \in 1..Len(FieldOrder) : r[FieldOrder[i]].exc # "none"}
        errors == UNION {r[f].errs : f \in DOMAIN r}
    IN  IF raising # {}
        THEN LET first == CHOOSE i \in raising : \A k \in raising : i <= k
             IN  [kind |-> "raised", exc |-> r[FieldOrder[first]].exc,
                  errors |-> {}, rec |-> None]
        ELSE IF errors # {}
        THEN [kind |-> "invalid", exc |-> "ValidationError",
              errors |-> errors, rec |-> None]
        ELSE [kind |-> "ok", exc |-> "none", errors |-> {},
              rec |-> [f \in DOMAIN r |-> r[f].val]]

(***************************************************************************)
(* The status documents an endpoint may answer with.  Every document is a  *)
(* JSON object; the sets below enumerate the values of each key.           *)
(***************************************************************************)
SpaceValues == {Absent, None, Str(""), Str("Foo")}

ApiValues == {Absent, None, Str(""), Str("13")}

Versions == {Str("13"), Str("14")}

ApiCompatValues ==
    {Absent, None} \cup
    {List(q) : q \in UNION {[1..n -> Versions] : n \in 0..MaxVersions}}

GoodUrl == UrlStr("https", "example.org")

NoSchemeUrl == UrlStr("", "example.org")

FtpUrl == UrlStr("ftp", "example.org")

LogoValues == {Absent, None, GoodUrl, NoSchemeUrl}

CamValues == {Absent, List(<<GoodUrl>>), List(<<GoodUrl, FtpUrl>>)}

LatValues == {Absent} \cup {IntV(x) : x \in {LatMin - 1, LatMin, 0, LatMax, LatMax + 1}}

LonValues == {Absent} \cup {IntV(x) : x \in {LonMin - 1, LonMin, 0, LonMax, LonMax + 1}}

LocationValues ==
    {Absent} \cup {Obj([lat |-> a, lon |-> o]) : a \in LatValues, o \in LonValues}

Timestamps ==
    {IntV(n) : n \in -MaxTs..MaxTs} \cup {FloatV(5 * k) : k \in (-2 * MaxTs)..(2 * MaxTs)}

LastchangeValues == {Absent, None, Str("yesterday"), List(<<>>)} \cup Timestamps

StateValues == {Absent} \cup {Obj([lastchange |-> l]) : l \in LastchangeValues}

Categories == {"temperature", "humidity"}

SensorEntries ==
    {None, IntV(7)} \cup
    {Obj([name |-> n, value |-> v]) :
        n \in {Absent, None, Str("probe")}, v \in {Absent, None, FloatV(215)}}

\* a category's value: null, or a list of at most n entries
CategoryValues(n) ==
    {None} \cup {List(q) : q \in UNION {[1..k -> SensorEntries] : k \in 0..n}}

SensorMaps ==
    {[c \in {} |-> None]} \cup
    UNION {[{c} -> CategoryValues(MaxSensors)] : c \in Categories} \cup
    UNION {{[c \in Categories |-> IF c = "temperature" THEN a ELSE b] :
                a \in CategoryValues(k), b \in CategoryValues(MaxSensors - k)} :
           k \in 0..MaxSensors}

SensorsValues == {Absent, None, List(<<>>)} \cup {Obj(m) : m \in SensorMaps}

Blank ==
    [space |-> Str("Foo"), api |-> Absent, api_compatibility |-> Absent,
     logo |-> Absent, location |-> Absent, state |-> Absent, cam |-> Absent,
     sensors |-> Absent]

\* the top-level keys in every combination
TopDocs ==
    {[Blank EXCEPT !.space = s, !.api = a, !.api_compatibility = c,
                   !.logo = l, !.cam = m, !.sensors = x] :
        s \in SpaceValues, a \in ApiValues, c \in ApiCompatValues,
        l \in LogoValues, m \in CamValues, x \in {Absent, List(<<>>)}}

\* each sub-document in full, next to a good or bad rest of the document
LocationDocs ==
    {[Blank EXCEPT !.space = s, !.logo = l, !.location = x] :
        s \in {Absent, Str("Foo")}, l \in {Absent, NoSchemeUrl}, x \in LocationValues}

StateDocs ==
    {[Blank EXCEPT !.space = s, !.sensors = y, !.state = x] :
        s \in {Absent, Str("Foo")}, y \in {Absent, List(<<>>)}, x \in StateValues}

SensorDocs ==
    {[Blank EXCEPT !.space = s, !.sensors = x] :
        s \in {Absent, Str("Foo")}, x \in SensorsValues}

Docs == TopDocs \cup LocationDocs \cup StateDocs \cup SensorDocs

(***************************************************************************)
(* The bodies an endpoint may send with HTTP 200: a status document, a     *)
(* JSON value that is not an object, or text that is not JSON.  A JSON     *)
(* object is the record of its keys; every other value carries the tag t.  *)
(***************************************************************************)
NotJson == [t |-> "invalid_json"]

NonObjectBodies == {List(<<>>), Str("closed"), IntV(7), None}

Bodies == Docs \cup NonObjectBodies \cup {NotJson}

IsObject(j) == "t" \notin DOMAIN j

\* response.json() and SpaceStatus(**space_data): text that is not JSON
\* raises JSONDecodeError, ** of anything but a mapping raises TypeError
SpaceStatusFromBody(b) ==
    IF b = NotJson
    THEN [kind |-> "raised", exc |-> "JSONDecodeError", errors |-> {}, rec |-> None]
    ELSE IF ~IsObject(b)
    THEN [kind |-> "raised", exc |-> "TypeError", errors |-> {}, rec |-> None]
    ELSE SpaceStatus(b)

(***************************************************************************)
(* SpaceStatus.dict(): every field becomes a key, a field that is None     *)
(* becomes a key with null, nested models become dicts.                    *)
(***************************************************************************)
dict(rec) ==
    [api_compatibility |-> rec.api_compatibility,
     api |-> rec.api,
     space |-> rec.space,
     logo |-> rec.logo,
     location |-> IF rec.location = None THEN None
                  ELSE Obj([lat |-> rec.location.v.lat, lon |-> rec.location.v.lon]),
     state |-> IF rec.state = None THEN None
               ELSE Obj([lastchange |-> rec.state.v.lastchange]),
     cam |-> rec.cam,
     sensors |-> rec.sensors]

(***************************************************************************)
(* SpaceAPIClient.get_space_status for an endpoint that answers HTTP 200   *)
(* with body: the body is parsed and the constructor runs once, and each   *)
(* of the three except clauses returns None.  The JSONDecodeError of       *)
(* requests is a RequestException, a ValidationError is a ValueError.      *)
(***************************************************************************)
NotRun == [kind |-> "notrun", exc |-> "none", errors |-> {}, rec |-> None]

\* get_space_status without the last clause, except Exception
get_space_status_NoCatchAll ==
    /\ pc = "request"
    /\ LET result == SpaceStatusFromBody(body)
       IN  /\ outcome' = result
           /\ returned' = IF result.kind = "ok" THEN result.rec ELSE None
           /\ handler' = CASE result.kind = "ok" -> "none"
                           [] result.exc = "JSONDecodeError" -> "RequestException"
                           [] result.exc = "ValidationError" -> "ValueError"
                           [] OTHER -> "uncaught"
    /\ pc' = "done"
    /\ UNCHANGED <<body, again, batchvars, restvars>>

get_space_status ==
    /\ pc = "request"
    /\ LET result == SpaceStatusFromBody(body)
       IN  /\ outcome' = result
           /\ returned' = IF result.kind = "ok" THEN result.rec ELSE None
           /\ handler' = CASE result.kind = "ok" -> "none"
                           [] result.exc = "JSONDecodeError" -> "RequestException"
                           [] result.exc = "ValidationError" -> "ValueError"
                           [] OTHER -> "Exception"
    /\ pc' = "done"
    /\ UNCHANGED <<body, again, batchvars, restvars>>

\* the record is serialized and the constructor runs on the result
normalize_again ==
    /\ pc = "done"
    /\ outcome.kind = "ok"
    /\ again' = SpaceStatus(dict(returned))
    /\ pc' = "again"
    /\ UNCHANGED <<body, outcome, returned, handler, batchvars, restvars>>

\* what an analysis that has not run has returned
AnaNotRun == [kind |-> "notrun"]

\* an analyzer without spaces, on which nothing was called
AnaIdle ==
    /\ spaces_data = <<>>
    /\ criteria = [open |-> Absent, has_location |-> Absent]
    /\ matching = AnaNotRun
    /\ patterns = AnaNotRun
    /\ geo = AnaNotRun

\* HealthMonitor.__init__: self.results, with the length of response_times,
\* the counts of api_versions and the lengths of the lists of errors
NewResults ==
    [total |-> 0, successful |-> 0, failed |-> 0, response_times |-> 0,
     api_versions |-> <<>>, errors |-> <<>>]

\* a monitor on which run_health_check was not called
MonIdle ==
    /\ mon = NewResults
    /\ lastrun = "none"

\* the directory before any call was made on it
DirNotRun == [kind |-> "notrun", exc |-> "none", spaces |-> <<>>]

\* no directory call is in progress
DirIdle ==
    /\ ep = "ok"
    /\ doc = [entries |-> <<>>]
    /\ query = <<>>
    /\ search_field = "name"
    /\ dirout = DirNotRun
    /\ statout = [kind |-> "notrun", val |-> None]
    /\ found = [kind |-> "notrun", exc |-> "none", urls |-> <<>>]

Init ==
    /\ body \in Bodies
    /\ pc = "request"
    /\ outcome = NotRun
    /\ returned = None
    /\ handler = "none"
    /\ again = NotRun
    /\ urls = <<>>
    /\ srv = <<>>
    /\ max_retries = 0
    /\ max_concurrent = 1
    /\ fut = <<>>
    /\ collected = {}
    /\ results = <<>>
    /\ writes = <<>>
    /\ mainpc = "idle"
    /\ DirIdle
    /\ AnaIdle
    /\ MonIdle

Next == get_space_status \/ normalize_again

Spec == Init /\ [][Next]_vars

TypeOK ==
    /\ pc \in {"request", "done", "again"}
    /\ outcome.kind \in {"notrun", "ok", "invalid", "raised"}
    /\ again.kind \in {"notrun", "ok", "invalid", "raised"}
    /\ handler \in {"none", "RequestException", "ValueError", "Exception"}

(***************************************************************************)
(* Vocabulary of the properties.                                           *)
(***************************************************************************)
\* get_space_status has returned for a body that is a status document
Done == pc = "done" /\ IsObject(body)

Ok == outcome.kind = "ok"

\* the document without the key f normalizes: whatever else it holds is valid
RestValid(f) == SpaceStatus([body EXCEPT ![f] = Absent]).kind = "ok"

UsableSpace == body.space.t = "str" /\ body.space.v # ""

MalformedLogo == body.logo.t = "str" /\ ~IsHttpUrl(body.logo)

MalformedCam ==
    body.cam.t = "list" /\ \E i \in 1..Len(body.cam.v) : ~IsHttpUrl(body.cam.v[i])

OutOfRange(j, lo, hi) ==
    /\ j.t \in {"int", "float"}
    /\ LET tenths == IF j.t = "int" THEN 10 * j.v ELSE j.v
       IN  tenths < 10 * lo \/ tenths > 10 * hi

LatOutOfRange ==
    body.location.t = "object" /\ OutOfRange(body.location.v.lat, LatMin, LatMax)

LonOutOfRange ==
    body.location.t = "object" /\ OutOfRange(body.location.v.lon, LonMin, LonMax)

HasLastchange == body.state.t = "object" /\ body.state.v.lastchange # Absent

NegativeLastchange ==
    /\ HasLastchange
    /\ body.state.v.lastchange.t \in {"int", "float"}
    /\ body.state.v.lastchange.v < 0

(***************************************************************************)
(* C1: a document without the key space is always rejected as a missing    *)
(* required field: no record is produced, and the failure is the           *)
(* ValidationError that reports space as missing, whatever the other keys  *)
(* hold.                                                                   *)
(***************************************************************************)
C1_MissingSpaceRejected ==
    Done /\ body.space = Absent =>
        /\ returned = None
        /\ outcome.kind = "invalid"
        /\ <<"space", "missing">> \in outcome.errors

(***************************************************************************)
(* C2, as claimed: every record has a non-empty api_compatibility list.    *)
(***************************************************************************)
C2_AlwaysNonEmptyVersions ==
    Done /\ Ok =>
        /\ outcome.rec.api_compatibility.t = "list"
        /\ Len(outcome.rec.api_compatibility.v) > 0

(***************************************************************************)
(* C2, amended: every record has a non-empty api_compatibility list or a   *)
(* non-empty api string.  api_compatibility is non-empty unless the        *)
(* document has the key api_compatibility with null or [] and a non-empty  *)
(* api string; then both are kept as they came.                            *)
(***************************************************************************)
C2_SomeVersionField ==
    Done /\ Ok =>
        /\ Truthy(outcome.rec.api_compatibility) \/ Truthy(outcome.rec.api)
        /\ IF body.api_compatibility \in {None, List(<<>>)} /\ Truthy(body.api)
           THEN /\ outcome.rec.api_compatibility = body.api_compatibility
                /\ outcome.rec.api = body.api
           ELSE /\ outcome.rec.api_compatibility.t = "list"
                /\ Len(outcome.rec.api_compatibility.v) > 0

C2_Witness ==
    /\ Done /\ Ok
    /\ body.api_compatibility = List(<<>>)
    /\ body.api = Str("13")
    /\ outcome.rec.api_compatibility = List(<<>>)

(***************************************************************************)
(* C3, as claimed: a legacy api string X without the key api_compatibility *)
(* gives the version list [X], for every X including "".                   *)
(***************************************************************************)
C3_LegacyApiAlwaysWrapped ==
    Done /\ Ok /\ body.api.t = "str" /\ body.api_compatibility = Absent =>
        outcome.rec.api_compatibility = List(<<body.api>>)

(***************************************************************************)
(* C3, amended: a non-empty legacy api string X without the key            *)
(* api_compatibility gives exactly [X]; the empty string gives the default *)
(* ["14"].  In both cases the record's api is None.                        *)
(***************************************************************************)
C3_LegacyApiWrapped ==
    Done /\ Ok /\ body.api.t = "str" /\ body.api_compatibility = Absent =>
        /\ outcome.rec.api_compatibility =
              IF body.api.v # "" THEN List(<<body.api>>) ELSE List(<<Str("14")>>)
        /\ outcome.rec.api = None

C3_Witness ==
    /\ Done /\ Ok
    /\ body.api = Str("13")
    /\ body.api_compatibility = Absent
    /\ outcome.rec.api_compatibility = List(<<Str("13")>>)

(***************************************************************************)
(* C4: a document with neither api nor api_compatibility gets the version  *)
(* list ["14"] before the fields are validated: its record has exactly     *)
(* that list, no validation error is about a version field, and it is      *)
(* rejected only when the same document with the version written out is.   *)
(***************************************************************************)
C4_DefaultVersion ==
    Done /\ body.api = Absent /\ body.api_compatibility = Absent =>
        /\ Ok => /\ outcome.rec.api_compatibility = List(<<Str("14")>>)
                 /\ outcome.rec.api = None
        /\ \A e \in outcome.errors : e[1] \notin {"api", "api_compatibility"}
        /\ outcome.kind =
              SpaceStatus([body EXCEPT !.api_compatibility = List(<<Str("14")>>)]).kind

C4_Witness ==
    /\ Done /\ Ok
    /\ body.api = Absent
    /\ body.api_compatibility = Absent
    /\ returned.api_compatibility = List(<<Str("14")>>)

(***************************************************************************)
(* C5, as claimed: with a usable space name, a malformed logo or a         *)
(* malformed entry of cam is dropped and normalization succeeds.           *)
(***************************************************************************)
C5_MalformedUrlDropped ==
    Done /\ UsableSpace /\ (MalformedLogo \/ MalformedCam)
         /\ SpaceStatus([body EXCEPT !.logo = Absent, !.cam = Absent]).kind = "ok" =>
        /\ Ok
        /\ MalformedLogo => outcome.rec.logo = None

(***************************************************************************)
(* C5, amended: an optional field that fails its own constraint is not     *)
(* dropped.  A malformed logo or a malformed entry of cam makes the        *)
(* construction fail, with a ValidationError that names the field unless   *)
(* another validator raised first, and get_space_status returns None even  *)
(* when the space name is usable.                                          *)
(***************************************************************************)
C5_MalformedUrlRejects ==
    Done /\ (MalformedLogo \/ MalformedCam) =>
        /\ ~Ok
        /\ returned = None
        /\ outcome.kind = "invalid" =>
              /\ MalformedLogo => <<"logo", "url_parsing">> \in outcome.errors
              /\ MalformedCam => <<"cam", "url_parsing">> \in outcome.errors

C5_Witness ==
    /\ Done /\ UsableSpace
    /\ body.logo = NoSchemeUrl
    /\ outcome.kind = "invalid"
    /\ outcome.errors = {<<"logo", "url_parsing">>}
    /\ returned = None

(***************************************************************************)
(* C6, as claimed: a latitude or longitude out of range, in a document     *)
(* that is valid otherwise, still gives a record.                          *)
(***************************************************************************)
C6_OutOfRangeKeepsRecord ==
    Done /\ (LatOutOfRange \/ LonOutOfRange) /\ RestValid("location") =>
        Ok /\ returned # None

(***************************************************************************)
(* C6, amended: a latitude outside [-90, 90] or a longitude outside        *)
(* [-180, 180] fails the record as a whole: the ValidationError names the  *)
(* coordinate and get_space_status returns None.                           *)
(***************************************************************************)
C6_OutOfRangeRejects ==
    Done /\ (LatOutOfRange \/ LonOutOfRange) =>
        /\ ~Ok
        /\ returned = None
        /\ outcome.kind = "invalid" =>
              /\ LatOutOfRange => \E e \in outcome.errors : e[1] = "location.lat"
              /\ LonOutOfRange => \E e \in outcome.errors : e[1] = "location.lon"

C6_Witness ==
    /\ Done /\ UsableSpace
    /\ body.location = Obj([lat |-> IntV(LatMax + 1), lon |-> IntV(0)])
    /\ outcome.kind = "invalid"
    /\ outcome.errors = {<<"location.lat", "less_than_equal">>}
    /\ returned = None

(***************************************************************************)
(* C7, as claimed: every negative lastchange, whole or fractional, in a    *)
(* document that is valid otherwise gives a record without lastchange.     *)
(***************************************************************************)
C7_NegativeAlwaysAbsent ==
    Done /\ NegativeLastchange /\ RestValid("state") =>
        Ok /\ outcome.rec.state.v.lastchange = None

(***************************************************************************)
(* C7, amended: a negative lastchange of -1 or less gives a record without *)
(* lastchange; a fractional value strictly between -1 and 0 is truncated   *)
(* to 0 and kept.  In every record lastchange is None or a whole number    *)
(* that is not negative.                                                   *)
(***************************************************************************)
C7_NegativeTruncatedOrAbsent ==
    /\ Done /\ NegativeLastchange /\ RestValid("state") =>
          /\ Ok
          /\ outcome.rec.state.v.lastchange =
                IF body.state.v.lastchange.t = "float"
                   /\ body.state.v.lastchange.v > -10
                THEN IntV(0) ELSE None
    /\ Done /\ Ok /\ outcome.rec.state # None =>
          \/ outcome.rec.state.v.lastchange = None
          \/ /\ outcome.rec.state.v.lastchange.t = "int"
             /\ outcome.rec.state.v.lastchange.v >= 0

C7_Witness ==
    /\ Done /\ Ok
    /\ body.state = Obj([lastchange |-> FloatV(-15)])
    /\ returned.state = Obj([lastchange |-> None])

(***************************************************************************)
(* C8: a lastchange that is malformed without being negative (a string, a  *)
(* list) never fails the record: a document that is valid otherwise gives  *)
(* a record without lastchange.                                            *)
(***************************************************************************)
C8_MalformedLastchangeAbsent ==
    Done /\ HasLastchange /\ body.state.v.lastchange.t \in {"str", "list"}
         /\ RestValid("state") =>
        Ok /\ outcome.rec.state.v.lastchange = None

(***************************************************************************)
(* C9: in a record, a sensor category is present exactly when its input    *)
(* list had an entry that is not null; sensors is None when no category    *)
(* is left.                                                                *)
(***************************************************************************)
C9_CategoryPresence ==
    Done /\ Ok =>
        LET surviving ==
                IF body.sensors.t = "object"
                THEN {c \in DOMAIN body.sensors.v :
                        /\ body.sensors.v[c] # None
                        /\ \E i \in 1..Len(body.sensors.v[c].v) :
                              body.sensors.v[c].v[i] # None}
                ELSE {}
        IN  IF surviving = {}
            THEN outcome.rec.sensors = None
            ELSE /\ outcome.rec.sensors.t = "object"
                 /\ DOMAIN outcome.rec.sensors.v = surviving

C9_Witness ==
    /\ Done /\ Ok
    /\ body.sensors.t = "object"
    /\ DOMAIN body.sensors.v = {"temperature", "humidity"}
    /\ body.sensors.v["temperature"] = List(<<None>>)
    /\ returned.sensors.t = "object"
    /\ DOMAIN returned.sensors.v = {"humidity"}

(***************************************************************************)
(* C10: in a record, category C holds the input entries that are not null, *)
(* in input order; an entry without a name, or with the name null, has the *)
(* name "C_sensor", every other entry keeps its name; null values are      *)
(* stripped.  [null, {value: 21.5}] under temperature becomes              *)
(* [{name: "temperature_sensor", value: 21.5}].                            *)
(***************************************************************************)
C10_NameDefaultAndOrder ==
    /\ Done /\ Ok /\ outcome.rec.sensors # None =>
          \A c \in DOMAIN outcome.rec.sensors.v :
              LET input == body.sensors.v[c].v
                  output == outcome.rec.sensors.v[c].v
                  \* position in the input of the k-th entry that is not null
                  pos(k) == CHOOSE i \in 1..Len(input) :
                                /\ input[i] # None
                                /\ Cardinality({j \in 1..i : input[j] # None}) = k
              IN  /\ Len(output) = Cardinality({j \in 1..Len(input) : input[j] # None})
                  /\ \A k \in 1..Len(output) :
                        LET in == input[pos(k)].v
                            out == output[k].v
                        IN  /\ out.name = IF in.name \in {Absent, None}
                                          THEN Str(c \o "_sensor") ELSE in.name
                            /\ out.value = IF in.value = None THEN Absent ELSE in.value
    /\ Done /\ body = [Blank EXCEPT !.sensors =
                          Obj([c \in {"temperature"} |->
                                 List(<<None, Obj([name |-> Absent,
                                                   value |-> FloatV(215)])>>)])] =>
          /\ Ok
          /\ returned.sensors =
                Obj([c \in {"temperature"} |->
                       List(<<Obj([name |-> Str("temperature_sensor"),
                                   value |-> FloatV(215)])>>)])

C10_Witness ==
    /\ Done /\ Ok
    /\ body.sensors.t = "object"
    /\ DOMAIN body.sensors.v = {"temperature"}
    /\ body.sensors.v["temperature"] =
          List(<<Obj([name |-> None, value |-> FloatV(215)]),
                 Obj([name |-> Str("probe"), value |-> None])>>)
    /\ returned.sensors.v["temperature"] =
          List(<<Obj([name |-> Str("temperature_sensor"), value |-> FloatV(215)]),
                 Obj([name |-> Str("probe"), value |-> Absent])>>)

\* a sensor entry that is an object without any value that is not null
EmptyEntry(e) == e.t = "object" /\ \A k \in DOMAIN e.v : e.v[k] \in {Absent, None}

\* the number of entries of the category c in the record
OutputCount(c) ==
    IF outcome.rec.sensors # None /\ c \in DOMAIN outcome.rec.sensors.v
    THEN Len(outcome.rec.sensors.v[c].v) ELSE 0

(***************************************************************************)
(* C11, as claimed: an entry that is an object with no keys, or with only  *)
(* null values, is dropped like a null entry: a category of the record     *)
(* holds as many entries as its input had entries that are neither null    *)
(* nor empty.                                                              *)
(***************************************************************************)
C11_EmptyEntryDropped ==
    Done /\ Ok /\ body.sensors.t = "object" =>
        \A c \in DOMAIN body.sensors.v :
            body.sensors.v[c] # None =>
                OutputCount(c) =
                    Cardinality({i \in 1..Len(body.sensors.v[c].v) :
                                    /\ body.sensors.v[c].v[i] # None
                                    /\ ~EmptyEntry(body.sensors.v[c].v[i])})

(***************************************************************************)
(* C11, amended: only null entries are dropped.  An entry that is an       *)
(* object with no keys, or with only null values, is kept as the entry     *)
(* {name: "C_sensor"}, and a category that holds such an entry is present  *)
(* in the record.                                                          *)
(***************************************************************************)
C11_EmptyEntryKept ==
    Done /\ Ok /\ body.sensors.t = "object" =>
        \A c \in DOMAIN body.sensors.v :
            body.sensors.v[c] # None =>
                LET input == body.sensors.v[c].v
                IN  /\ OutputCount(c) =
                          Cardinality({i \in 1..Len(input) : input[i] # None})
                    /\ (\E i \in 1..Len(input) : EmptyEntry(input[i])) =>
                          /\ c \in DOMAIN outcome.rec.sensors.v
                          /\ \E k \in 1..OutputCount(c) :
                                outcome.rec.sensors.v[c].v[k] =
                                    Obj([name |-> Str(c \o "_sensor"), value |-> Absent])

C11_Witness ==
    /\ Done /\ Ok
    /\ body.sensors =
          Obj([c \in {"temperature"} |->
                 List(<<Obj([name |-> Absent, value |-> None])>>)])
    /\ returned.sensors =
          Obj([c \in {"temperature"} |->
                 List(<<Obj([name |-> Str("temperature_sensor"), value |-> Absent])>>)])

(***************************************************************************)
(* C13, as claimed: no record has an empty space name; a document whose    *)
(* space is "" is rejected like a document without the key space.          *)
(***************************************************************************)
C13_EmptySpaceRejected ==
    /\ Done /\ Ok => outcome.rec.space.v # ""
    /\ Done /\ body.space = Str("") =>
          /\ returned = None
          /\ outcome.kind = "invalid" => \E e \in outcome.errors : e[1] = "space"

(***************************************************************************)
(* C13, amended: space is required but may be empty.  A document whose     *)
(* space is "" is treated like one with a name: it is rejected only when   *)
(* the same document with a name is, no validation error is about space,   *)
(* and its record has the space name "".                                   *)
(***************************************************************************)
C13_EmptySpaceAccepted ==
    Done /\ body.space = Str("") =>
        /\ outcome.kind = SpaceStatus([body EXCEPT !.space = Str("Foo")]).kind
        /\ \A e \in outcome.errors : e[1] # "space"
        /\ Ok => outcome.rec.space = Str("")

C13_Witness ==
    /\ Done /\ Ok
    /\ body.space = Str("")
    /\ returned.space = Str("")

(***************************************************************************)
(* C12: normalization is idempotent.  Serializing a record with dict() and *)
(* normalizing the result again succeeds and gives an equal record, with   *)
(* the same api_compatibility, sensors and state.lastchange.               *)
(***************************************************************************)
C12_Idempotent ==
    pc = "again" =>
        /\ again.kind = "ok"
        /\ again.rec = outcome.rec
        /\ again.rec.api_compatibility = returned.api_compatibility
        /\ again.rec.sensors = returned.sensors
        /\ again.rec.state = returned.state

C12_Witness ==
    /\ pc = "again"
    /\ body.api = Str("13")
    /\ body.api_compatibility = Absent
    /\ dict(returned) # body
    /\ again.kind = "ok"
    /\ again.rec.api_compatibility = List(<<Str("13")>>)

(***************************************************************************)
(* C14: for an HTTP 200 body that is valid JSON but not an object,         *)
(* get_space_status returns None and raises nothing to its caller: the     *)
(* exception is caught by one of its except clauses.                       *)
(***************************************************************************)
C14_NonObjectBodyGivesNone ==
    pc = "done" /\ body \in NonObjectBodies =>
        /\ returned = None
        /\ outcome.kind = "raised"
        /\ handler \in {"RequestException", "ValueError", "Exception"}

C14_Witness ==
    /\ pc = "done"
    /\ body = List(<<>>)
    /\ outcome.exc = "TypeError"
    /\ handler = "Exception"
    /\ returned = None

(***************************************************************************)
(* SpaceAPIClient.get_multiple_space_statuses.  Every URL of the list is   *)
(* submitted to a ThreadPoolExecutor of max_concurrent workers; a worker   *)
(* runs get_space_status, whose session retries a transient failure up to  *)
(* max_retries times; the calling thread stores each result as its future  *)
(* completes and returns when it has seen every future.                    *)
(***************************************************************************)
URLs == {"u1", "u2"}

\* how an endpoint answers: always 200 with a valid document, 200 with a
\* document without space, 200 with text that is not JSON, always 503,
\* always 404, never a connection, or 503 once and 200 afterwards
Behaviours == {"ok", "invalid", "notjson", "http503", "http404", "connerr", "flaky"}

\* status_forcelist of the Retry strategy
StatusForcelist == {429, 500, 502, 503, 504}

\* no HTTP status: the connection failed or timed out
ConnectionError == 0

\* the status of the attempt-th request to an endpoint
Status(behaviour, attempt) ==
    CASE behaviour \in {"ok", "invalid", "notjson"} -> 200
      [] behaviour = "http503" -> 503
      [] behaviour = "http404" -> 404
      [] behaviour = "connerr" -> ConnectionError
      [] behaviour = "flaky" -> IF attempt = 1 THEN 503 ELSE 200

\* the body sent with status 200
BodyOf(behaviour) ==
    CASE behaviour = "invalid" -> [Blank EXCEPT !.space = Absent]
      [] behaviour = "notjson" -> NotJson
      [] OTHER -> Blank

\* the Retry strategy retries a connection error and a status of the list
Transient(status) == status = ConnectionError \/ status \in StatusForcelist

\* get_space_status after the last request that only catches RequestException
fetch_result_NoCatch(status, behaviour) ==
    IF status # 200
    THEN [result |-> None, exc |-> "none"]
    ELSE LET built == SpaceStatusFromBody(BodyOf(behaviour))
         IN  IF built.kind = "ok" THEN [result |-> built.rec, exc |-> "none"]
             ELSE IF built.exc = "JSONDecodeError" THEN [result |-> None, exc |-> "none"]
             ELSE [result |-> None, exc |-> built.exc]

\* get_space_status after the last request: RetryError, ConnectionError and
\* the HTTPError of raise_for_status are RequestExceptions and give None, a
\* body with status 200 is parsed and validated, the three except clauses
\* let no exception out
fetch_result(status, behaviour) ==
    IF status # 200
    THEN [result |-> None, exc |-> "none"]
    ELSE LET built == SpaceStatusFromBody(BodyOf(behaviour))
         IN  IF built.kind = "ok" THEN [result |-> built.rec, exc |-> "none"]
             ELSE [result |-> None, exc |-> "none"]

\* fetch_space bound to the loop variable instead of its argument
fetch_space_LateBinding(i) == urls[Len(urls)]

\* the URL the i-th submitted fetch_space works on
fetch_space(i) == urls[i]

Running == {i \in 1..Len(fut) : fut[i].st = "running"}

Queued == {i \in 1..Len(fut) : fut[i].st = "queued"}

\* one executor.submit of the dict comprehension: the next URL of the list
\* is put on the work queue of the executor
submit ==
    /\ mainpc = "submitting"
    /\ Len(fut) < Len(urls)
    /\ fut' = Append(fut, [st |-> "queued", attempts |-> 0,
                           url |-> urls[Len(fut) + 1],
                           result |-> None, exc |-> "none"])
    /\ UNCHANGED <<callvars, restvars, urls, srv, max_retries, max_concurrent,
                   collected, results, writes, mainpc>>

\* every URL is submitted: the calling thread enters the as_completed loop
as_completed ==
    /\ mainpc = "submitting"
    /\ Len(fut) = Len(urls)
    /\ mainpc' = "collecting"
    /\ UNCHANGED <<callvars, restvars, urls, srv, max_retries, max_concurrent,
                   fut, collected, results, writes>>

\* a worker that starts a task although max_concurrent tasks are running
Start_NoLimit(i) ==
    /\ i \in Queued
    /\ \A k \in Queued : i <= k
    /\ fut' = [fut EXCEPT ![i].st = "running"]
    /\ UNCHANGED <<callvars, restvars, urls, srv, max_retries, max_concurrent,
                   collected, results, writes, mainpc>>

\* a free worker takes the oldest task of the work queue
Start(i) ==
    /\ i \in Queued
    /\ \A k \in Queued : i <= k
    /\ Cardinality(Running) < max_concurrent
    /\ fut' = [fut EXCEPT ![i].st = "running"]
    /\ UNCHANGED <<callvars, restvars, urls, srv, max_retries, max_concurrent,
                   collected, results, writes, mainpc>>

\* a fetch that requests the document again when its body was rejected
Attempt_RetryInvalid(i) ==
    /\ i \in Running
    /\ LET attempt == fut[i].attempts + 1
           status == Status(srv[fetch_space(i)], attempt)
           r == fetch_result(status, srv[fetch_space(i)])
       IN  IF (Transient(status) \/ (status = 200 /\ r.result = None))
              /\ attempt <= max_retries
           THEN fut' = [fut EXCEPT ![i].attempts = attempt]
           ELSE fut' = [fut EXCEPT ![i] = [st |-> "done", attempts |-> attempt,
                                          url |-> fetch_space(i),
                                          result |-> r.result, exc |-> r.exc]]
    /\ UNCHANGED <<callvars, restvars, urls, srv, max_retries, max_concurrent,
                   collected, results, writes, mainpc>>

\* a request that is retried once more than max_retries allows
Attempt_ExtraRetry(i) ==
    /\ i \in Running
    /\ LET attempt == fut[i].attempts + 1
           status == Status(srv[fetch_space(i)], attempt)
       IN  IF Transient(status) /\ attempt <= max_retries + 1
           THEN fut' = [fut EXCEPT ![i].attempts = attempt]
           ELSE LET r == fetch_result(status, srv[fetch_space(i)])
                IN  fut' = [fut EXCEPT ![i] = [st |-> "done", attempts |-> attempt,
                                               url |-> fetch_space(i),
                                               result |-> r.result, exc |-> r.exc]]
    /\ UNCHANGED <<callvars, restvars, urls, srv, max_retries, max_concurrent,
                   collected, results, writes, mainpc>>

\* one request of session.get: a transient failure is retried while retries
\* are left, anything else ends the fetch with its result
Attempt(i) ==
    /\ i \in Running
    /\ LET attempt == fut[i].attempts + 1
           status == Status(srv[fetch_space(i)], attempt)
       IN  IF Transient(status) /\ attempt <= max_retries
           THEN fut' = [fut EXCEPT ![i].attempts = attempt]
           ELSE LET r == fetch_result(status, srv[fetch_space(i)])
                IN  fut' = [fut EXCEPT ![i] = [st |-> "done", attempts |-> attempt,
                                               url |-> fetch_space(i),
                                               result |-> r.result, exc |-> r.exc]]
    /\ UNCHANGED <<callvars, restvars, urls, srv, max_retries, max_concurrent,
                   collected, results, writes, mainpc>>

\* results with the value r stored under the key u
Store(u, r) ==
    [k \in DOMAIN results \cup {u} |-> IF k = u THEN r ELSE results[k]]

\* a loop body that stores a result only when the fetch gave a record
Collect_SkipFailed(i) ==
    /\ mainpc = "collecting"
    /\ i \in 1..Len(fut)
    /\ fut[i].st = "done"
    /\ i \notin collected
    /\ collected' = collected \cup {i}
    /\ IF fut[i].exc # "none"
       THEN mainpc' = "raised" /\ UNCHANGED <<results, writes>>
       ELSE IF fut[i].result = None
       THEN UNCHANGED <<results, writes, mainpc>>
       ELSE /\ results' = Store(fut[i].url, fut[i].result)
            /\ writes' = [writes EXCEPT ![fut[i].url] = @ + 1]
            /\ UNCHANGED mainpc
    /\ UNCHANGED <<callvars, restvars, urls, srv, max_retries, max_concurrent, fut>>

\* the body of the as_completed loop, on the calling thread: future.result()
\* re-raises what the worker raised, otherwise results[url] = status
Collect(i) ==
    /\ mainpc = "collecting"
    /\ i \in 1..Len(fut)
    /\ fut[i].st = "done"
    /\ i \notin collected
    /\ collected' = collected \cup {i}
    /\ IF fut[i].exc # "none"
       THEN mainpc' = "raised" /\ UNCHANGED <<results, writes>>
       ELSE /\ results' = Store(fut[i].url, fut[i].result)
            /\ writes' = [writes EXCEPT ![fut[i].url] = @ + 1]
            /\ UNCHANGED mainpc
    /\ UNCHANGED <<callvars, restvars, urls, srv, max_retries, max_concurrent, fut>>

\* a return statement inside the as_completed loop
Return_InLoop ==
    /\ mainpc = "collecting"
    /\ collected # {} \/ Len(fut) = 0
    /\ \A i \in 1..Len(fut) : fut[i].st = "done"
    /\ mainpc' = "returned"
    /\ UNCHANGED <<callvars, restvars, urls, srv, max_retries, max_concurrent,
                   fut, collected, results, writes>>

\* as_completed is exhausted, the executor is shut down, results is returned
Return ==
    /\ mainpc = "collecting"
    /\ collected = 1..Len(fut)
    /\ mainpc' = "returned"
    /\ UNCHANGED <<callvars, restvars, urls, srv, max_retries, max_concurrent,
                   fut, collected, results, writes>>

\* all lists of at most MaxUrls URLs, with repetitions
UrlLists == UNION {[1..n -> URLs] : n \in 0..MaxUrls}

\* the call has created results and the executor and has submitted nothing
InitBatch ==
    /\ body = Blank
    /\ pc = "batch"
    /\ outcome = NotRun
    /\ returned = None
    /\ handler = "none"
    /\ again = NotRun
    /\ urls \in UrlLists
    /\ srv \in [{urls[i] : i \in 1..Len(urls)} -> Behaviours]
    /\ max_retries \in 0..MaxRetries
    /\ max_concurrent \in 1..MaxWorkers
    /\ fut = <<>>
    /\ collected = {}
    /\ results = <<>>
    /\ writes = [u \in {urls[i] : i \in 1..Len(urls)} |-> 0]
    /\ mainpc = "submitting"
    /\ DirIdle
    /\ AnaIdle
    /\ MonIdle

NextBatch ==
    \/ submit
    \/ as_completed
    \/ \E i \in 1..MaxUrls + 1 : Start(i)
    \/ \E i \in 1..MaxUrls + 1 : Attempt(i)
    \/ \E i \in 1..MaxUrls + 1 : Collect(i)
    \/ Return

SpecBatch == InitBatch /\ [][NextBatch]_vars

\* every worker thread and the calling thread keep running
SpecBatchLive == SpecBatch /\ WF_vars(NextBatch)

(***************************************************************************)
(* Vocabulary of the batch claims                                          *)
(***************************************************************************)
UrlSet == {urls[i] : i \in 1..Len(urls)}

Returned == mainpc = "returned"

\* the endpoints whose every fetch fails, whatever max_retries is
Failing == {"invalid", "notjson", "http503", "http404", "connerr"}

IsRecord(r) == r # None /\ r.space = Blank.space

\* a failed result that carries the HTTP status of the last response
HttpStatus(code) == [t |-> "HttpStatus", code |-> code]

\* the statuses of the first n requests to the endpoint of a fetch
AllTransient(f, n) == \A a \in 1..n : Transient(Status(srv[f.url], a))

\* C15: get_multiple_space_statuses returns only when every submitted fetch
\* is terminal, and the keys of the returned mapping are exactly the URLs
\* passed in, for every completion order of the workers.
C15_ReturnsCompleteMapping ==
    Returned =>
        /\ Len(fut) = Len(urls)
        /\ \A i \in 1..Len(fut) : fut[i].st = "done"
        /\ DOMAIN results = UrlSet

\* a call that has returned the results of two different endpoints whose
\* second fetch finished first
C15_Witness ==
    /\ Returned
    /\ Cardinality(UrlSet) = 2
    /\ DOMAIN results = UrlSet
    /\ fut[1].attempts > fut[2].attempts

\* C16: no failure of an endpoint is raised out of the batch fetch; a failed
\* endpoint has the failed result None under its URL, and every other
\* endpoint is fetched and has its own record.
C16_FailureIsolated ==
    /\ mainpc # "raised"
    /\ \A i \in 1..Len(fut) : fut[i].exc = "none"
    /\ Returned =>
          \A u \in UrlSet :
              /\ u \in DOMAIN results
              /\ srv[u] \in Failing => results[u] = None
              /\ srv[u] = "ok" => IsRecord(results[u])

\* a returned batch of one endpoint that fails validation and one that is up
C16_Witness ==
    /\ Returned
    /\ \E u, v \in UrlSet :
          /\ srv[u] = "invalid" /\ results[u] = None
          /\ srv[v] = "ok" /\ IsRecord(results[v])

\* every endpoint of the batch always answers 503 or always answers 200
\* with a valid document
Only503And200 == \A u \in UrlSet : srv[u] \in {"http503", "ok"}

\* C17 as stated: the failed result of a 503 endpoint carries the status.
C17_FailureCarriesStatus ==
    (Returned /\ Only503And200) =>
        /\ DOMAIN results = UrlSet
        /\ \A u \in UrlSet :
              /\ srv[u] = "ok" => IsRecord(results[u])
              /\ srv[u] = "http503" => results[u] = HttpStatus(503)

\* C17: in a batch of 503 endpoints and 200 endpoints the mapping has exactly
\* one entry per endpoint, a record for a 200 endpoint and None, which carries
\* no status, for a 503 endpoint, whatever the interleaving of the workers.
C17_FailureIsNone ==
    (Returned /\ Only503And200) =>
        /\ DOMAIN results = UrlSet
        /\ \A u \in UrlSet :
              /\ srv[u] = "ok" => IsRecord(results[u])
              /\ srv[u] = "http503" => results[u] = None

\* a returned batch of one 503 endpoint, retried to exhaustion, and one 200
\* endpoint
C17_Witness ==
    /\ Returned
    /\ Only503And200
    /\ max_retries > 0
    /\ \E i, j \in 1..Len(fut) :
          /\ srv[fut[i].url] = "http503" /\ fut[i].attempts = max_retries + 1
          /\ srv[fut[j].url] = "ok" /\ IsRecord(results[fut[j].url])

\* C18: a fetch makes at most max_retries + 1 requests, a request is repeated
\* only after a transient failure, and every batch fetch returns.
C18_RetriesBounded ==
    /\ [](\A i \in 1..Len(fut) :
             /\ fut[i].attempts <= max_retries + 1
             /\ fut[i].st = "running" => AllTransient(fut[i], fut[i].attempts)
             /\ fut[i].st = "done" => AllTransient(fut[i], fut[i].attempts - 1))
    /\ <>Returned

\* a returned batch with a fetch that used all its retries and one that was
\* retried once and then succeeded
C18_Witness ==
    /\ Returned
    /\ max_retries = MaxRetries
    /\ \E i \in 1..Len(fut) :
          srv[fut[i].url] = "connerr" /\ fut[i].attempts = max_retries + 1
    /\ \E i \in 1..Len(fut) :
          srv[fut[i].url] = "flaky" /\ fut[i].attempts = 2 /\ IsRecord(fut[i].result)

\* C19: at most max_concurrent fetches are in flight at any moment; the
\* fetches beyond the limit wait on the queue.
C19_ConcurrencyBounded == Cardinality(Running) <= max_concurrent

\* all workers are busy and a fetch waits for one to become free
C19_Witness ==
    /\ Cardinality(Running) = max_concurrent
    /\ Queued # {}

\* C20 as stated: the slot of every URL is written exactly once, also when
\* the URL occurs more than once in the list.
C20_WrittenExactlyOnce ==
    Returned => \A u \in UrlSet : writes[u] = 1

\* the number of times u occurs in the list
Occurrences(u) == Cardinality({i \in 1..Len(urls) : urls[i] = u})

\* C20: the slot of a URL is written once for every occurrence of the URL in
\* the list, so exactly once when the URL occurs once, and every write is a
\* step of the calling thread that takes one finished future, so no two
\* writes race.
C20_WrittenOncePerOccurrence ==
    /\ [](Returned => \A u \in UrlSet : writes[u] = Occurrences(u))
    /\ [][(results' # results \/ writes' # writes) =>
             /\ mainpc = "collecting"
             /\ fut' = fut
             /\ \E i \in 1..Len(fut) :
                   /\ i \notin collected
                   /\ collected' = collected \cup {i}
                   /\ writes' = [writes EXCEPT ![fut[i].url] = @ + 1]]_vars

\* a returned batch whose list names the same URL twice: its slot was
\* written twice
C20_Witness ==
    /\ Returned
    /\ Len(urls) = 2
    /\ urls[1] = urls[2]
    /\ writes[urls[1]] = 2

\* the fetch has received an answer with status 200 among its first n
\* requests
Answered200(f, n) == \E a \in 1..n : Status(srv[f.url], a) = 200

\* C21: a normalization failure is never retried: the request that is
\* answered with 200 is the last request of its fetch, and the step that
\* receives it parses the body and makes the fetch terminal, with None when
\* the body is not JSON or fails validation.
C21_NoRetryAfter200 ==
    /\ [](\A i \in 1..Len(fut) :
             /\ ~Answered200(fut[i], fut[i].attempts - 1)
             /\ Answered200(fut[i], fut[i].attempts) => fut[i].st = "done"
             /\ (fut[i].st = "done" /\ srv[fut[i].url] \in {"invalid", "notjson"}) =>
                    fut[i].attempts = 1 /\ fut[i].result = None)
    /\ [][\A i \in 1..Len(fut) :
             fut[i].st = "done" => fut'[i] = fut[i]]_vars

\* a client with retries left has dropped a document that fails validation
\* after one request
C21_Witness ==
    /\ max_retries = MaxRetries
    /\ \E i \in 1..Len(fut) :
          /\ srv[fut[i].url] = "invalid"
          /\ fut[i].st = "done"
          /\ fut[i].attempts = 1
          /\ fut[i].result = None

(***************************************************************************)
(* Cancellation of a batch fetch.  get_multiple_space_statuses takes no    *)
(* deadline and no cancellation token; the caller can only cancel by an    *)
(* interrupt of the calling thread (KeyboardInterrupt).  The interrupt     *)
(* leaves the with block of the executor, whose exit is shutdown(wait =    *)
(* True): it waits for every submitted fetch, and then the interrupt       *)
(* propagates to the caller.                                               *)
(***************************************************************************)
\* the calling thread is interrupted while it submits or waits for a future
interrupt ==
    /\ mainpc \in {"submitting", "collecting"}
    /\ mainpc' = "interrupted"
    /\ UNCHANGED <<callvars, restvars, urls, srv, max_retries, max_concurrent,
                   fut, collected, results, writes>>

\* an exit of the with block that does not wait for the workers
propagate_NoWait ==
    /\ mainpc = "interrupted"
    /\ mainpc' = "cancelled"
    /\ UNCHANGED <<callvars, restvars, urls, srv, max_retries, max_concurrent,
                   fut, collected, results, writes>>

\* the exit of the with block has joined the workers: every submitted fetch
\* is terminal, and the interrupt leaves the call, which returns nothing
propagate ==
    /\ mainpc = "interrupted"
    /\ \A i \in 1..Len(fut) : fut[i].st = "done"
    /\ mainpc' = "cancelled"
    /\ UNCHANGED <<callvars, restvars, urls, srv, max_retries, max_concurrent,
                   fut, collected, results, writes>>

NextCancel ==
    \/ NextBatch
    \/ interrupt
    \/ propagate

SpecCancel == InitBatch /\ [][NextCancel]_vars

\* the fetches that are submitted and not terminal
InFlight == {i \in 1..Len(fut) : fut[i].st # "done"}

\* C22 as stated: a call cancelled while fetches are in flight abandons them
\* and ends by returning the mapping of the results it has so far.
C22_CancelReturnsPartial ==
    [][(mainpc = "interrupted" /\ mainpc' # "interrupted") =>
          /\ mainpc' = "returned"
          /\ results' = results]_vars

\* C22: the batch fetch has no deadline and no cancellation: a call that is
\* interrupted while fetches are in flight abandons none of them, it ends
\* only when every submitted fetch is terminal, and it ends by propagating
\* the interrupt, so the results collected so far are not returned.
C22_CancelWaitsAndRaises ==
    /\ [](mainpc = "cancelled" => InFlight = {})
    /\ [][mainpc = "interrupted" =>
             /\ mainpc' \in {"interrupted", "cancelled"}
             /\ collected' = collected
             /\ results' = results
             /\ \A i \in 1..Len(fut) : fut[i].st = "running" =>
                    fut'[i].st \in {"running", "done"}]_vars

\* an interrupted call that holds the result of one endpoint and waits for
\* the fetch of another
C22_Witness ==
    /\ mainpc = "interrupted"
    /\ collected # {}
    /\ Running # {}

(***************************************************************************)
(* The directory: SpaceDirectory.from_dict, SpaceAPIClient.get_directory   *)
(* and SpaceAPIClient.search_spaces.  A directory document is a JSON       *)
(* object of names and URLs; its entries are kept in document order, as    *)
(* the dict of json.loads keeps them.  A name is a sequence of characters. *)
(***************************************************************************)
\* most entries of a directory document
MaxEntries == 2

Names == {<<"L", "a", "b">>, <<"l", "a">>, <<"B">>}

OtherUrl == UrlStr("http", "Lab.example")

DirUrlValues == {GoodUrl, OtherUrl, NoSchemeUrl, FtpUrl}

DirObj(entries) == [entries |-> entries]

\* the directory documents: at most MaxEntries entries with different names
DirDocs ==
    {DirObj(e) : e \in {q \in UNION {[1..n -> [name : Names, url : DirUrlValues]] :
                                       n \in 0..MaxEntries} :
                          \A i, j \in 1..Len(q) : q[i].name = q[j].name => i = j}}

DirBodies == DirDocs \cup NonObjectBodies

\* a function of one character
lower_char(c) ==
    CASE c = "A" -> "a"
      [] c = "B" -> "b"
      [] c = "L" -> "l"
      [] OTHER -> c

\* str.lower
lower(str) == [i \in 1..Len(str) |-> lower_char(str[i])]

\* the operator in of two strings
Contains(sub, str) ==
    \E k \in 0..(Len(str) - Len(sub)) :
        \A i \in 1..Len(sub) : str[k + i] = sub[i]

\* lower of a host name, which is a TLC string
lower_host(h) == IF h = "Lab.example" THEN "lab.example" ELSE h

\* HttpUrl(url): an absolute http or https URL is parsed, its host in lower
\* case and with the path / when it has none; anything else is a
\* ValidationError
HttpUrl(url) ==
    IF IsHttpUrl(url)
    THEN FieldOk([scheme |-> url.scheme, host |-> lower_host(url.host), path |-> "/"])
    ELSE FieldError(<<"url">>, "url_parsing")

\* str(url), a string with scheme, host and path
str(url) == [t |-> "str", scheme |-> url.scheme, host |-> url.host, path |-> url.path]

\* a from_dict that skips the entries HttpUrl rejects
from_dict_DropInvalid(data) ==
    IF ~IsObject(data)
    THEN [kind |-> "raised", exc |-> "AttributeError", spaces |-> <<>>]
    ELSE LET RECURSIVE parsed(_)
             parsed(q) ==
                 IF q = <<>> THEN <<>>
                 ELSE IF HttpUrl(Head(q).url).errs = {}
                      THEN <<[name |-> Head(q).name, url |-> HttpUrl(Head(q).url).val]>>
                           \o parsed(Tail(q))
                      ELSE parsed(Tail(q))
         IN  [kind |-> "ok", exc |-> "none", spaces |-> parsed(data.entries)]

\* SpaceDirectory.from_dict: data.items() of a value that is no dict is an
\* AttributeError; the first entry that HttpUrl rejects raises its
\* ValidationError out of the loop; otherwise every entry is kept, in order
from_dict(data) ==
    IF ~IsObject(data)
    THEN [kind |-> "raised", exc |-> "AttributeError", spaces |-> <<>>]
    ELSE IF \E i \in 1..Len(data.entries) : HttpUrl(data.entries[i].url).errs # {}
    THEN [kind |-> "raised", exc |-> "ValidationError", spaces |-> <<>>]
    ELSE [kind |-> "ok", exc |-> "none",
          spaces |-> [i \in 1..Len(data.entries) |->
                        [name |-> data.entries[i].name,
                         url |-> HttpUrl(data.entries[i].url).val]]]

\* the endpoints of the directory calls: each answers its first request as
\* it answers every request
DirEndpoints == Behaviours \ {"flaky"}

Queries == {<<>>, <<"a">>, <<"L", "A">>, <<"a", "b">>, <<"b", "a">>}

SearchFields == {"name", "url"}

\* the body the directory endpoint sends with status 200
DirBody == IF ep = "notjson" THEN NotJson ELSE doc

\* a get_directory that answers a failed request with an empty directory
get_directory_Swallow(status, b) ==
    CASE status # 200 -> [kind |-> "ok", exc |-> "none", spaces |-> <<>>]
      [] b = NotJson -> [kind |-> "ok", exc |-> "none", spaces |-> <<>>]
      [] OTHER -> from_dict(b)

\* get_directory on a response: a failed connection, a status that
\* raise_for_status rejects and a body that is not JSON are logged and raised
\* again; what from_dict raises is not caught at all
get_directory(status, b) ==
    CASE status = ConnectionError ->
             [kind |-> "raised", exc |-> "ConnectionError", spaces |-> <<>>]
      [] status # 200 -> [kind |-> "raised", exc |-> "HTTPError", spaces |-> <<>>]
      [] b = NotJson -> [kind |-> "raised", exc |-> "JSONDecodeError", spaces |-> <<>>]
      [] OTHER -> from_dict(b)

\* a caller fetches the directory
call_get_directory ==
    /\ pc = "dir"
    /\ dirout.kind = "notrun"
    /\ dirout' = get_directory(Status(ep, 1), DirBody)
    /\ UNCHANGED <<callvars, batchvars, anavars, monvars, ep, doc, query,
                   search_field, statout, found>>

\* a caller asks get_space_status for an endpoint that answers like ep
call_get_space_status ==
    /\ pc = "dir"
    /\ statout.kind = "notrun"
    /\ LET r == fetch_result(Status(ep, 1), ep)
       IN  statout' = IF r.exc = "none"
                      THEN [kind |-> "returned", val |-> r.result]
                      ELSE [kind |-> "raised", val |-> None]
    /\ UNCHANGED <<callvars, batchvars, anavars, monvars, ep, doc, query,
                   search_field, dirout, found>>

\* the list comprehension of search_spaces that compares the name as it is
matching_urls_CaseSensitive(spaces, query_lower) ==
    LET Matches(e) == Contains(query_lower, e.name)
        hits == SelectSeq(spaces, Matches)
    IN  [i \in 1..Len(hits) |-> str(hits[i].url)]

\* the list comprehension of search_spaces
matching_urls(spaces, query_lower) ==
    LET Matches(e) == Contains(query_lower, lower(e.name))
        hits == SelectSeq(spaces, Matches)
    IN  [i \in 1..Len(hits) |-> str(hits[i].url)]

\* search_spaces: the directory is fetched first, and what get_directory
\* raises leaves search_spaces; then the field is looked at
search_spaces ==
    /\ pc = "dir"
    /\ found.kind = "notrun"
    /\ LET directory == get_directory(Status(ep, 1), DirBody)
           query_lower == lower(query)
       IN  found' =
             IF directory.kind = "raised"
             THEN [kind |-> "raised", exc |-> directory.exc, urls |-> <<>>]
             ELSE IF search_field = "name"
             THEN [kind |-> "ok", exc |-> "none",
                   urls |-> matching_urls(directory.spaces, query_lower)]
             ELSE [kind |-> "raised", exc |-> "ValueError", urls |-> <<>>]
    /\ UNCHANGED <<callvars, batchvars, anavars, monvars, ep, doc, query,
                   search_field, dirout, statout>>

\* no call of get_space_status on a given body is in progress
CallIdle ==
    /\ body = Blank
    /\ outcome = NotRun
    /\ returned = None
    /\ handler = "none"
    /\ again = NotRun

\* no batch fetch is in progress
BatchIdle ==
    /\ urls = <<>>
    /\ srv = <<>>
    /\ max_retries = 0
    /\ max_concurrent = 1
    /\ fut = <<>>
    /\ collected = {}
    /\ results = <<>>
    /\ writes = <<>>
    /\ mainpc = "idle"

\* a directory endpoint, a document behind it, and the arguments of a search
InitDir ==
    /\ CallIdle
    /\ pc = "dir"
    /\ BatchIdle
    /\ ep \in DirEndpoints
    /\ doc \in IF ep = "ok" THEN DirBodies ELSE {DirObj(<<>>)}
    /\ query \in Queries
    /\ search_field \in SearchFields
    /\ dirout = DirNotRun
    /\ statout = [kind |-> "notrun", val |-> None]
    /\ found = [kind |-> "notrun", exc |-> "none", urls |-> <<>>]
    /\ AnaIdle
    /\ MonIdle

NextDir ==
    \/ call_get_directory
    \/ call_get_space_status
    \/ search_spaces

SpecDir == InitDir /\ [][NextDir]_vars

(***************************************************************************)
(* Vocabulary of the directory claims                                      *)
(***************************************************************************)
\* the directory endpoint has answered 200 with a body that is JSON
GotJson == Status(ep, 1) = 200 /\ DirBody # NotJson

DirDone == dirout.kind # "notrun"

ValidEntries == {i \in 1..Len(doc.entries) : IsHttpUrl(doc.entries[i].url)}

\* C23 as stated: an entry whose value is no absolute URL is dropped and the
\* directory of the other entries is produced.
C23_InvalidEntryDropped ==
    (DirDone /\ GotJson /\ IsObject(doc)) =>
        /\ dirout.kind = "ok"
        /\ Len(dirout.spaces) = Cardinality(ValidEntries)

\* C23: from_dict of a flat JSON object succeeds exactly when every value is
\* an absolute http(s) URL, and then the mapping has every entry of the
\* document, under its name and in document order; one value that is no such
\* URL makes the whole directory fail with a ValidationError.
C23_InvalidEntryRejects ==
    (DirDone /\ GotJson /\ IsObject(doc)) =>
        IF ValidEntries = 1..Len(doc.entries)
        THEN /\ dirout.kind = "ok"
             /\ Len(dirout.spaces) = Len(doc.entries)
             /\ \A i \in 1..Len(doc.entries) :
                   /\ dirout.spaces[i].name = doc.entries[i].name
                   /\ dirout.spaces[i].url.scheme = doc.entries[i].url.scheme
                   /\ dirout.spaces[i].url.host = lower_host(doc.entries[i].url.host)
        ELSE /\ dirout.kind = "raised"
             /\ dirout.exc = "ValidationError"
             /\ dirout.spaces = <<>>

\* a directory of one good entry and one entry without a scheme was fetched
C23_Witness ==
    /\ DirDone /\ GotJson /\ IsObject(doc)
    /\ Len(doc.entries) = 2
    /\ Cardinality(ValidEntries) = 1
    /\ \E i \in 1..2 : doc.entries[i].url = NoSchemeUrl
    /\ dirout.kind = "raised"

\* the exceptions that tell the caller that the input was malformed
MalformedInput == {"JSONDecodeError", "ValidationError"}

\* C24: a directory body that is JSON and no object fails as malformed input
\* and not with an unrelated error.
C24_NonObjectIsMalformedInput ==
    (DirDone /\ GotJson /\ ~IsObject(doc)) =>
        /\ dirout.kind = "raised"
        /\ dirout.exc \in MalformedInput

\* the endpoint fails in the transport, by its status or by a body that is
\* not JSON
TransportOrDecodeFailure == ep \in {"connerr", "http404", "http503", "notjson"}

IsValueError(exc) == exc \in {"ValueError", "ValidationError", "JSONDecodeError"}

SearchDone == found.kind # "notrun"

\* the entries of the directory whose name contains the query when both are
\* put in lower case
Hits(spaces) ==
    {i \in 1..Len(spaces) : Contains(lower(query), lower(spaces[i].name))}

\* urls are the URLs of the entries Hits, one each and in their order
UrlsOfHits(spaces, list) ==
    /\ Len(list) = Cardinality(Hits(spaces))
    /\ \E f \in [1..Len(list) -> Hits(spaces)] :
          /\ \A j, k \in 1..Len(list) : j < k => f[j] < f[k]
          /\ \A k \in 1..Len(list) : list[k] = str(spaces[f[k]].url)

\* C26 as stated: a search by name returns the URLs of the matching entries,
\* and a search by any other field raises ValueError, whatever the directory
\* endpoint does.
C26_SearchAlways ==
    SearchDone =>
        IF search_field = "name"
        THEN (get_directory(Status(ep, 1), DirBody).kind = "ok") =>
                /\ found.kind = "ok"
                /\ UrlsOfHits(get_directory(Status(ep, 1), DirBody).spaces, found.urls)
        ELSE found.kind = "raised" /\ IsValueError(found.exc)

\* C26: search_spaces fetches the directory first and what get_directory
\* raises leaves search_spaces, whatever search_field is.  When the directory
\* was fetched, a search by name returns the URLs of exactly the entries
\* whose name contains the query without regard to case, one per entry and
\* in directory order, and a search by another field raises ValueError.
C26_SearchAfterFetch ==
    SearchDone =>
        LET directory == get_directory(Status(ep, 1), DirBody)
        IN  IF directory.kind = "raised"
            THEN found = [kind |-> "raised", exc |-> directory.exc, urls |-> <<>>]
            ELSE IF search_field = "name"
            THEN found.kind = "ok" /\ UrlsOfHits(directory.spaces, found.urls)
            ELSE found = [kind |-> "raised", exc |-> "ValueError", urls |-> <<>>]

\* a search whose query differs in case from the one name it matches, in a
\* directory of two entries
C26_Witness ==
    /\ SearchDone
    /\ search_field = "name"
    /\ query = <<"L", "A">>
    /\ IsObject(doc)
    /\ Len(doc.entries) = 2
    /\ doc.entries[2].name = <<"l", "a">>
    /\ doc.entries[1].name = <<"B">>
    /\ found.kind = "ok"
    /\ Len(found.urls) = 1
    /\ found.urls[1] = str(HttpUrl(doc.entries[2].url).val)

(***************************************************************************)
(* SpaceAnalyzer.  The loaded spaces are SpaceStatus records as the        *)
(* normalizer makes them: a state or None, with open True, False or None   *)
(* and a lastchange that is None or not negative; a location or None, with *)
(* lat and lon None or in range.  Times are in hours since the epoch,      *)
(* coordinates in whole degrees.                                           *)
(***************************************************************************)
\* most spaces loaded into an analyzer
MaxSpaces == 2

Bool(b) == [t |-> "bool", v |-> b]

\* datetime.now(timezone.utc).timestamp() of the analysis
Now == 48

OpenValues == {None, Bool(TRUE), Bool(FALSE)}

\* no lastchange, the epoch, 38 hours ago and 18 hours ago
AnaLastchanges == {None, IntV(0), IntV(10), IntV(30)}

AnaStates == {None} \cup [open : OpenValues, lastchange : AnaLastchanges]

AnaLats == {None, IntV(0), IntV(45), IntV(-45)}

AnaLons == {None, IntV(0), IntV(10)}

AnaLocations == [lat : AnaLats, lon : AnaLons]

\* the spaces an analyzer is loaded with: every state next to no location,
\* every location next to no state
AnaSpaces ==
    {[space |-> "Foo", state |-> st, location |-> None] : st \in AnaStates}
    \cup {[space |-> "Foo", state |-> None, location |-> l] : l \in AnaLocations}

SpaceLists == UNION {[1..n -> AnaSpaces] : n \in 0..MaxSpaces}

\* the keyword arguments of find_spaces_by_criteria
Criterias == [open : {Absent, Bool(TRUE), Bool(FALSE)},
              has_location : {Absent, Bool(TRUE)}]

\* Python truthiness of a number or None
TruthyNum(x) == x # None /\ x.v # 0

\* the loop over criteria.items() for one space: open is compared only when
\* the space has a state, has_location only when its value is True
matches(space, crit) ==
    /\ (crit.open # Absent /\ space.state # None) => space.state.open = crit.open
    /\ crit.has_location = Bool(TRUE) => space.location # None

\* find_spaces_by_criteria: the spaces that match, in their order
find_spaces_by_criteria ==
    /\ pc = "analyzer"
    /\ matching = AnaNotRun
    /\ LET Matches(space) == matches(space, criteria)
       IN  matching' = [kind |-> "ok", spaces |-> SelectSeq(spaces_data, Matches)]
    /\ UNCHANGED <<callvars, batchvars, dirvars, monvars, spaces_data, criteria,
                   patterns, geo>>

\* a status_info of analyze_opening_patterns: hours_since_change is set only
\* for a lastchange that is truthy
status_info(space) ==
    [open |-> space.state.open,
     lastchange |-> space.state.lastchange,
     hours_since_change |-> IF TruthyNum(space.state.lastchange)
                            THEN IntV(Now - space.state.lastchange.v)
                            ELSE Absent]

\* s.get("hours_since_change", 0)
get_hours_since_change(s) ==
    IF s.hours_since_change = Absent THEN 0 ELSE s.hours_since_change.v

\* analyze_opening_patterns
analyze_opening_patterns ==
    /\ pc = "analyzer"
    /\ patterns = AnaNotRun
    /\ LET HasState(space) == space.state # None
           status_data == [i \in 1..Len(SelectSeq(spaces_data, HasState)) |->
                             status_info(SelectSeq(spaces_data, HasState)[i])]
           IsOpen(s) == s.open = Bool(TRUE)
           IsClosed(s) == s.open = Bool(FALSE)
           IsRecent(s) == get_hours_since_change(s) < 24
       IN  patterns' =
             IF spaces_data = <<>>
             THEN [kind |-> "error"]
             ELSE [kind |-> "ok",
                   total_with_status |-> Len(status_data),
                   open_count |-> Len(SelectSeq(status_data, IsOpen)),
                   closed_count |-> Len(SelectSeq(status_data, IsClosed)),
                   recent_changes |-> Len(SelectSeq(status_data, IsRecent))]
    /\ UNCHANGED <<callvars, batchvars, dirvars, monvars, spaces_data, criteria,
                   matching, geo>>

\* the region of a location, by the chain of comparisons of the analysis
region(lat, lon) ==
    IF lat > 60 THEN "Arctic"
    ELSE IF 30 <= lat /\ lat <= 60
    THEN IF -140 <= lon /\ lon <= -40 THEN "North America"
         ELSE IF -10 <= lon /\ lon <= 40
         THEN IF lat > 0 THEN "Europe" ELSE "North Africa"
         ELSE "Asia"
    ELSE IF -30 <= lat /\ lat <= 30
    THEN IF -80 <= lon /\ lon <= -30 THEN "South America"
         ELSE IF -20 <= lon /\ lon <= 50 THEN "Africa/Middle East"
         ELSE "Asia-Pacific"
    ELSE "Southern Hemisphere"

Regions == {"Arctic", "North America", "Europe", "North Africa", "Asia",
            "South America", "Africa/Middle East", "Asia-Pacific",
            "Southern Hemisphere"}

\* analyze_geographic_distribution: a space is located when its location, its
\* lat and its lon are all truthy
analyze_geographic_distribution ==
    /\ pc = "analyzer"
    /\ geo = AnaNotRun
    /\ LET Located(space) ==
               /\ space.location # None
               /\ TruthyNum(space.location.lat)
               /\ TruthyNum(space.location.lon)
           locations == SelectSeq(spaces_data, Located)
           InRegion(r) == {i \in 1..Len(locations) :
                             region(locations[i].location.lat.v,
                                    locations[i].location.lon.v) = r}
       IN  geo' =
             IF spaces_data = <<>>
             THEN [kind |-> "error"]
             ELSE [kind |-> "ok",
                   total_locations |-> Len(locations),
                   regions |-> [r \in {x \in Regions : InRegion(x) # {}} |->
                                  Cardinality(InRegion(r))]]
    /\ UNCHANGED <<callvars, batchvars, dirvars, monvars, spaces_data, criteria,
                   matching, patterns>>

\* load_spaces with a list of spaces, and the criteria of the search
InitAna ==
    /\ CallIdle
    /\ pc = "analyzer"
    /\ BatchIdle
    /\ DirIdle
    /\ MonIdle
    /\ spaces_data \in SpaceLists
    /\ criteria \in Criterias
    /\ matching = AnaNotRun
    /\ patterns = AnaNotRun
    /\ geo = AnaNotRun

NextAna ==
    \/ find_spaces_by_criteria
    \/ analyze_opening_patterns
    \/ analyze_geographic_distribution

SpecAna == InitAna /\ [][NextAna]_vars

(***************************************************************************)
(* Vocabulary of the analyzer claims                                       *)
(***************************************************************************)
RECURSIVE SumOver(_)
\* the sum of the values of a function to numbers
SumOver(f) ==
    IF DOMAIN f = {} THEN 0
    ELSE LET k == CHOOSE x \in DOMAIN f : TRUE
         IN  f[k] + SumOver([x \in DOMAIN f \ {k} |-> f[x]])

\* C27: every space find_spaces_by_criteria returns satisfies every criterion;
\* with open = v it has a state whose open is v, so a space without a state is
\* not returned.
C27_ReturnedSpacesMatch ==
    matching.kind = "ok" =>
        \A i \in 1..Len(matching.spaces) :
            /\ criteria.open # Absent =>
                  /\ matching.spaces[i].state # None
                  /\ matching.spaces[i].state.open = criteria.open
            /\ criteria.has_location = Bool(TRUE) =>
                  matching.spaces[i].location # None

\* the loaded spaces whose state has a lastchange less than 24 hours before
\* Now
ChangedRecently ==
    {i \in 1..Len(spaces_data) :
        /\ spaces_data[i].state # None
        /\ spaces_data[i].state.lastchange # None
        /\ Now - spaces_data[i].state.lastchange.v < 24}

\* C29: recent_changes is the number of spaces whose lastchange is less than
\* 24 hours old, a state without lastchange or with lastchange 0 is not one
\* of them, and open_count + closed_count is at most total_with_status.
C29_RecentChangesExact ==
    patterns.kind = "ok" =>
        /\ patterns.recent_changes = Cardinality(ChangedRecently)
        /\ patterns.open_count + patterns.closed_count <= patterns.total_with_status

\* the loaded spaces whose location has a lat and a lon
HasCoordinates ==
    {i \in 1..Len(spaces_data) :
        /\ spaces_data[i].location # None
        /\ spaces_data[i].location.lat # None
        /\ spaces_data[i].location.lon # None}

\* C30: every space with lat and lon, 0 included, is counted once:
\* total_locations is their number and the region counts sum to it.
C30_EveryLocatedSpaceCounted ==
    geo.kind = "ok" =>
        /\ geo.total_locations = Cardinality(HasCoordinates)
        /\ SumOver(geo.regions) = geo.total_locations

(***************************************************************************)
(* HealthMonitor.  self.results lives as long as the monitor and every     *)
(* run_health_check adds to it.  A run fetches the directory and checks    *)
(* the first max_spaces endpoints in turn.                                 *)
(***************************************************************************)
\* most endpoints of the directory a run checks
MaxChecked == 2

\* run_health_check is called while total stays within MaxTotal
MaxTotal == 4

\* how an endpoint answers the monitor: a document with "api": "0.13", one
\* with "api_compatibility": ["14"], one with "api": ["0.13"], a body that is
\* not JSON, status 404, no connection
MonEndpoints == {"api13", "compat14", "apilist", "notjson", "http404", "connerr"}

\* _extract_api_version: the joined api_compatibility, else data['api'] as it
\* is, which for "api": ["0.13"] is a list
extract_api_version(kind) ==
    CASE kind = "compat14" -> Str("14")
      [] kind = "api13" -> Str("0.13")
      [] kind = "apilist" -> List(<<Str("0.13")>>)

\* the status and the api_version of the result of check_endpoint_health
check_endpoint_health(kind) ==
    CASE kind \in {"api13", "compat14", "apilist"} ->
             [status |-> "success", api_version |-> extract_api_version(kind)]
      [] kind = "notjson" -> [status |-> "invalid_json", api_version |-> None]
      [] kind = "http404" -> [status |-> "http_error", api_version |-> None]
      [] kind = "connerr" -> [status |-> "connection_error", api_version |-> None]

\* a list is no key of a dict
Hashable(j) == j.t # "list"

\* d[k] += 1 of a defaultdict(int), d[k].append(x) of a defaultdict(list)
Incremented(d, k) ==
    [x \in DOMAIN d \cup {k} |->
        IF x = k THEN (IF k \in DOMAIN d THEN d[k] + 1 ELSE 1) ELSE d[x]]

\* the body of the loop of run_health_check for one endpoint; the results
\* after it and whether the statement on api_versions raised TypeError
check_one(res, kind) ==
    LET result == check_endpoint_health(kind)
        counted == [res EXCEPT !.total = @ + 1, !.response_times = @ + 1]
    IN  IF result.status = "success"
        THEN IF Hashable(result.api_version)
             THEN [res |-> [counted EXCEPT
                              !.successful = @ + 1,
                              !.api_versions = Incremented(@, result.api_version.v)],
                   raised |-> FALSE]
             ELSE [res |-> [counted EXCEPT !.successful = @ + 1],
                   raised |-> TRUE]
        ELSE [res |-> [counted EXCEPT
                         !.failed = @ + 1,
                         !.errors = Incremented(@, result.status)],
              raised |-> FALSE]

RECURSIVE check_all(_, _)
\* the loop over space_items, left by the first statement that raises
check_all(res, space_items) ==
    IF space_items = <<>>
    THEN [res |-> res, raised |-> FALSE]
    ELSE LET one == check_one(res, Head(space_items))
         IN  IF one.raised THEN one ELSE check_all(one.res, Tail(space_items))

\* list(...)[:max_spaces]
Sliced(q, n) == SubSeq(q, 1, IF n < Len(q) THEN n ELSE Len(q))

MonDirectories == UNION {[1..n -> MonEndpoints] : n \in 0..MaxChecked}

\* run_health_check on a directory endpoint that is up or down; an exception
\* of get_directory returns self.results as it is
run_health_check ==
    /\ pc = "monitor"
    /\ \E e \in {"ok", "connerr"}, endpoints \in MonDirectories,
          max_spaces \in {1, 50} :
          LET directory == get_directory(Status(e, 1), DirObj(<<>>))
              run == check_all(mon, Sliced(endpoints, max_spaces))
          IN  IF directory.kind = "raised"
              THEN lastrun' = "dirfail" /\ mon' = mon
              ELSE /\ mon.total + Len(endpoints) <= MaxTotal
                   /\ mon' = run.res
                   /\ lastrun' = IF run.raised THEN "raised" ELSE "returned"
    /\ UNCHANGED <<callvars, batchvars, dirvars, anavars>>

\* a new monitor
InitMon ==
    /\ CallIdle
    /\ pc = "monitor"
    /\ BatchIdle
    /\ DirIdle
    /\ AnaIdle
    /\ mon = NewResults
    /\ lastrun = "none"

NextMon == run_health_check

SpecMon == InitMon /\ [][NextMon]_vars

\* C28: after every sequence of run_health_check calls on one monitor, total
\* is successful + failed and the number of response times, the counts of
\* api_versions sum to successful, the lengths of the lists of errors sum to
\* failed, and a run whose directory fetch fails changes no counter.
C28_CountersConsistent ==
    /\ [](/\ mon.total = mon.successful + mon.failed
          /\ mon.total = mon.response_times
          /\ SumOver(mon.api_versions) = mon.successful
          /\ SumOver(mon.errors) = mon.failed)
    /\ [][lastrun' = "dirfail" => mon' = mon]_vars

====
